---- MODULE Spec2Model ----
(***************************************************************************)
(* Posture Guard: the pose detection hook (src/src/hooks/usePoseDetection  *)
(* .ts, TensorFlow.js MoveNet) as a state machine.  The state is the       *)
(* hook's React state (postureData, isModelLoading, error), its refs       *)
(* (detectorRef, animationFrameRef, videoRef), the browser's set of        *)
(* scheduled animation-frame callbacks and the estimatePoses calls that    *)
(* are awaiting their result.  JavaScript runs every handler to its next   *)
(* await, so each action is one such run.                                  *)
(*                                                                         *)
(* Numbers: coordinates are integers (pixels), confidence scores are in    *)
(* hundredths, angles are whole degrees rounded away from zero (so that    *)
(* |angle| > n is exact for every integer n).                              *)
(***************************************************************************)
EXTENDS Integers, Sequences, FiniteSets, TLC

(* ------------------------------ bounds --------------------------------- *)

\* Most sampling loops (a pending animation frame or an awaited inference)
\* that startDetection is allowed to have running at once.
MaxLoops == 3

(* --------------------------- program constants ------------------------- *)

BACK_ANGLE_THRESHOLD == 15

NECK_FORWARD_THRESHOLD == 30

\* the confidence gate 0.3 of findKeypoint, in hundredths
SCORE_GATE == 30

\* null / undefined of a ref or of an optional number
Null == 0

Undefined == -1

\* a missing landmark (null) is the empty tuple, a present one is <<point>>
NullPoint == <<>>

Point(px, py) == <<[x |-> px, y |-> py]>>

Abs(n) == IF n < 0 THEN -n ELSE n

(* ------------------------------ geometry ------------------------------- *)

\* floor(tan(d degrees) * 10^4) for d = 0 .. 89, TanTab[d + 1]
TanTab ==
  << 0, 174, 349, 524, 699, 874, 1051, 1227, 1405, 1583, 1763, 1943,
     2125, 2308, 2493, 2679, 2867, 3057, 3249, 3443, 3639, 3838, 4040,
     4244, 4452, 4663, 4877, 5095, 5317, 5543, 5773, 6008, 6248, 6494,
     6745, 7002, 7265, 7535, 7812, 8097, 8390, 8692, 9004, 9325, 9656,
     10000, 10355, 10723, 11106, 11503, 11917, 12348, 12799, 13270,
     13763, 14281, 14825, 15398, 16003, 16642, 17320, 18040, 18807,
     19626, 20503, 21445, 22460, 23558, 24750, 26050, 27474, 29042,
     30776, 32708, 34874, 37320, 40107, 43314, 47046, 51445, 56712,
     63137, 71153, 81443, 95143, 114300, 143006, 190811, 286362,
     572899 >>

TanScale == 10000

\* Math.atan2(dx, dy) * 180 / Math.PI, rounded away from zero
Atan2Deg(dx, dy) ==
  LET a == Abs(dx)
      b == Abs(dy)
      sgn == IF dx < 0 THEN -1 ELSE 1
      up == IF b = 0 THEN 90
            ELSE IF \E d \in 0..89 : a * TanScale <= TanTab[d + 1] * b
                 THEN CHOOSE d \in 0..89 :
                        /\ a * TanScale <= TanTab[d + 1] * b
                        /\ \A e \in 0..(d - 1) : a * TanScale > TanTab[e + 1] * b
                 ELSE 90
      down == IF b = 0 THEN 0
              ELSE CHOOSE d \in 0..89 :
                     /\ TanTab[d + 1] * b <= a * TanScale
                     /\ \A e \in (d + 1)..89 : TanTab[e + 1] * b > a * TanScale
  IN  IF dx = 0 THEN (IF dy >= 0 THEN 0 ELSE 180)
      ELSE IF dy >= 0 THEN sgn * up
      ELSE sgn * (180 - down)

calculateAngleFromVertical(top, bottom) ==
  LET dx == top.x - bottom.x
      dy == bottom.y - top.y
  IN  Atan2Deg(dx, dy)

(* ---------------------------- classification --------------------------- *)

\* a completeness check that looks at the shoulders only
classifyPostureShouldersOnly(landmarks, backAngle, neckForwardDistance) ==
  LET hasRequiredLandmarks ==
        /\ landmarks.leftShoulder # NullPoint
        /\ landmarks.rightShoulder # NullPoint
      isBackAngleBad == Abs(backAngle) > BACK_ANGLE_THRESHOLD
      isHeadForward == neckForwardDistance > NECK_FORWARD_THRESHOLD
  IN  IF ~hasRequiredLandmarks THEN "initializing"
      ELSE IF isBackAngleBad \/ isHeadForward THEN "bad"
      ELSE "good"

\* bad only when both conditions hold
classifyPostureBothNeeded(landmarks, backAngle, neckForwardDistance) ==
  LET hasRequiredLandmarks ==
        /\ landmarks.leftShoulder # NullPoint
        /\ landmarks.rightShoulder # NullPoint
        /\ landmarks.leftHip # NullPoint
        /\ landmarks.rightHip # NullPoint
      isBackAngleBad == Abs(backAngle) > BACK_ANGLE_THRESHOLD
      isHeadForward == neckForwardDistance > NECK_FORWARD_THRESHOLD
  IN  IF ~hasRequiredLandmarks THEN "initializing"
      ELSE IF isBackAngleBad /\ isHeadForward THEN "bad"
      ELSE "good"

\* the back angle compared without Math.abs
classifyPostureSigned(landmarks, backAngle, neckForwardDistance) ==
  LET hasRequiredLandmarks ==
        /\ landmarks.leftShoulder # NullPoint
        /\ landmarks.rightShoulder # NullPoint
        /\ landmarks.leftHip # NullPoint
        /\ landmarks.rightHip # NullPoint
      isBackAngleBad == backAngle > BACK_ANGLE_THRESHOLD
      isHeadForward == neckForwardDistance > NECK_FORWARD_THRESHOLD
  IN  IF ~hasRequiredLandmarks THEN "initializing"
      ELSE IF isBackAngleBad \/ isHeadForward THEN "bad"
      ELSE "good"

classifyPosture(landmarks, backAngle, neckForwardDistance) ==
  LET hasRequiredLandmarks ==
        /\ landmarks.leftShoulder # NullPoint
        /\ landmarks.rightShoulder # NullPoint
        /\ landmarks.leftHip # NullPoint
        /\ landmarks.rightHip # NullPoint
      isBackAngleBad == Abs(backAngle) > BACK_ANGLE_THRESHOLD
      isHeadForward == neckForwardDistance > NECK_FORWARD_THRESHOLD
  IN  IF ~hasRequiredLandmarks THEN "initializing"
      ELSE IF isBackAngleBad \/ isHeadForward THEN "bad"
      ELSE "good"

\* a gate that lets a score of exactly 0.3 through
findKeypointInclusive(keypoints, name) ==
  LET hits == {i \in 1..Len(keypoints) : keypoints[i].name = name}
  IN  IF hits = {} THEN NullPoint
      ELSE LET kp == keypoints[CHOOSE i \in hits : \A j \in hits : i <= j]
           IN  IF kp.score # Undefined /\ kp.score # 0 /\ kp.score >= SCORE_GATE
               THEN Point(kp.x, kp.y)
               ELSE NullPoint

\* keypoints.find(k => k.name === name), then the score gate
findKeypoint(keypoints, name) ==
  LET hits == {i \in 1..Len(keypoints) : keypoints[i].name = name}
  IN  IF hits = {} THEN NullPoint
      ELSE LET kp == keypoints[CHOOSE i \in hits : \A j \in hits : i <= j]
           IN  IF kp.score # Undefined /\ kp.score # 0 /\ kp.score > SCORE_GATE
               THEN Point(kp.x, kp.y)
               ELSE NullPoint

extractLandmarks(keypoints) ==
  [nose          |-> findKeypoint(keypoints, "nose"),
   leftShoulder  |-> findKeypoint(keypoints, "left_shoulder"),
   rightShoulder |-> findKeypoint(keypoints, "right_shoulder"),
   leftHip       |-> findKeypoint(keypoints, "left_hip"),
   rightHip      |-> findKeypoint(keypoints, "right_hip")]

\* the snapshot processFrame builds from poses[0]; the engine's coordinates
\* are taken with even sums per pair, so that the midpoints are integers
FrameSnapshot(pose) ==
  LET landmarks == extractLandmarks(pose.keypoints)
      hasShoulders == landmarks.leftShoulder # NullPoint
                        /\ landmarks.rightShoulder # NullPoint
      hasHips == landmarks.leftHip # NullPoint /\ landmarks.rightHip # NullPoint
      shoulderMidX == IF hasShoulders
                      THEN (landmarks.leftShoulder[1].x + landmarks.rightShoulder[1].x) \div 2
                      ELSE 0
      shoulderMidY == IF hasShoulders
                      THEN (landmarks.leftShoulder[1].y + landmarks.rightShoulder[1].y) \div 2
                      ELSE 0
      hipMidX == IF hasHips
                 THEN (landmarks.leftHip[1].x + landmarks.rightHip[1].x) \div 2
                 ELSE 0
      hipMidY == IF hasHips
                 THEN (landmarks.leftHip[1].y + landmarks.rightHip[1].y) \div 2
                 ELSE 0
      backAngle == IF shoulderMidY # 0 /\ hipMidY # 0
                   THEN calculateAngleFromVertical([x |-> shoulderMidX, y |-> shoulderMidY],
                                                   [x |-> hipMidX, y |-> hipMidY])
                   ELSE 0
      neckForwardDistance == IF landmarks.nose # NullPoint /\ shoulderMidX # 0
                             THEN Abs(landmarks.nose[1].x - shoulderMidX)
                             ELSE 0
      avgConfidence == IF pose.score = Undefined THEN 0 ELSE pose.score
  IN  [status     |-> classifyPosture(landmarks, backAngle, neckForwardDistance),
       landmarks  |-> landmarks,
       neckAngle  |-> neckForwardDistance,
       backAngle  |-> backAngle,
       confidence |-> avgConfidence]

InitialPostureData ==
  [status     |-> "initializing",
   landmarks  |-> [nose |-> NullPoint, leftShoulder |-> NullPoint,
                   rightShoulder |-> NullPoint, leftHip |-> NullPoint,
                   rightHip |-> NullPoint],
   neckAngle  |-> 0,
   backAngle  |-> 0,
   confidence |-> 0]

(* ------------------------- what the engine returns --------------------- *)

Keypoint(n, px, py, s) == [name |-> n, x |-> px, y |-> py, score |-> s]

\* upright: shoulders above hips, nose above the shoulder midpoint
UprightPose ==
  [score |-> 90,
   keypoints |-> << Keypoint("nose", 40, 30, 90),
                    Keypoint("left_shoulder", 30, 40, 90),
                    Keypoint("right_shoulder", 50, 40, 90),
                    Keypoint("left_hip", 34, 80, 90),
                    Keypoint("right_hip", 46, 80, 90) >>]

\* leaning: shoulder midpoint 16 px to the side of the hip midpoint
LeaningPose ==
  [score |-> 80,
   keypoints |-> << Keypoint("nose", 56, 30, 90),
                    Keypoint("left_shoulder", 46, 40, 90),
                    Keypoint("right_shoulder", 66, 40, 90),
                    Keypoint("left_hip", 34, 80, 90),
                    Keypoint("right_hip", 46, 80, 90) >>]

\* hips below the confidence gate
PartialPose ==
  [score |-> 40,
   keypoints |-> << Keypoint("nose", 40, 30, 90),
                    Keypoint("left_shoulder", 30, 40, 90),
                    Keypoint("right_shoulder", 50, 40, 90),
                    Keypoint("left_hip", 34, 80, 20),
                    Keypoint("right_hip", 46, 80, 29) >>]

SamplePoses == {UprightPose, LeaningPose, PartialPose}

\* the ways an awaited estimatePoses call can settle: it throws, or it
\* resolves with no pose or with one pose
InferenceOutcomes ==
  {[threw |-> TRUE, poses |-> <<>>], [threw |-> FALSE, poses |-> <<>>]}
    \cup {[threw |-> FALSE, poses |-> <<p>>] : p \in SamplePoses}

(* ------------------- the functions applied on their own ---------------- *)

\* largest magnitude of a back angle handed to classifyPosture on its own
MaxProbeAngle == 20

AllNullLandmarks ==
  [nose |-> NullPoint, leftShoulder |-> NullPoint, rightShoulder |-> NullPoint,
   leftHip |-> NullPoint, rightHip |-> NullPoint]

RequiredPresent(landmarks) ==
  /\ landmarks.leftShoulder # NullPoint
  /\ landmarks.rightShoulder # NullPoint
  /\ landmarks.leftHip # NullPoint
  /\ landmarks.rightHip # NullPoint

\* the names findKeypoint is called with, and the field each one fills
TrackedNames ==
  << "nose", "left_shoulder", "right_shoulder", "left_hip", "right_hip" >>

LandmarkNamed(landmarks, name) ==
  CASE name = "nose" -> landmarks.nose
    [] name = "left_shoulder" -> landmarks.leftShoulder
    [] name = "right_shoulder" -> landmarks.rightShoulder
    [] name = "left_hip" -> landmarks.leftHip
    [] name = "right_hip" -> landmarks.rightHip

\* the first keypoint of that name, as <<keypoint>>, or <<>> when there is none
KeypointNamed(keypoints, name) ==
  LET hits == {i \in 1..Len(keypoints) : keypoints[i].name = name}
  IN  IF hits = {} THEN <<>>
      ELSE << keypoints[CHOOSE i \in hits : \A j \in hits : i <= j] >>

\* a keypoint the engine left out of its result
Absent == -2

ProbeScores == {Absent, Undefined, 0, 29, 30, 31}

ProbeXs == << 40, 30, 50, 34, 46 >>

ProbeYs == << 30, 40, 40, 80, 80 >>

\* the keypoint list in which the i-th tracked keypoint has score c[i]; an
\* untracked keypoint comes first
KeypointsScored(c) ==
  LET all == [i \in 1..5 |-> Keypoint(TrackedNames[i], ProbeXs[i], ProbeYs[i], c[i])]
      IsThere(k) == k.score # Absent
  IN  << Keypoint("left_eye", 42, 28, 90) >> \o SelectSeq(all, IsThere)

ProbeLandmarkSets ==
  {[nose          |-> IF 1 \in m THEN Point(40, 30) ELSE NullPoint,
    leftShoulder  |-> IF 2 \in m THEN Point(30, 40) ELSE NullPoint,
    rightShoulder |-> IF 3 \in m THEN Point(50, 40) ELSE NullPoint,
    leftHip       |-> IF 4 \in m THEN Point(34, 80) ELSE NullPoint,
    rightHip      |-> IF 5 \in m THEN Point(46, 80) ELSE NullPoint]
     : m \in SUBSET (1..5)}

ProbeAngles == (-MaxProbeAngle)..MaxProbeAngle

ProbeNecks == {0, NECK_FORWARD_THRESHOLD - 1, NECK_FORWARD_THRESHOLD,
               NECK_FORWARD_THRESHOLD + 1}

\* a pose whose keypoints are above (90) or below (20) the confidence gate
ProbeFramePose(nx, lsx, rsx, sy, lhx, rhx, hy, m) ==
  [score |-> 70,
   keypoints |-> << Keypoint("nose", nx, 30, IF 1 \in m THEN 90 ELSE 20),
                    Keypoint("left_shoulder", lsx, sy, IF 2 \in m THEN 90 ELSE 20),
                    Keypoint("right_shoulder", rsx, sy, IF 3 \in m THEN 90 ELSE 20),
                    Keypoint("left_hip", lhx, hy, IF 4 \in m THEN 90 ELSE 20),
                    Keypoint("right_hip", rhx, hy, IF 5 \in m THEN 90 ELSE 20) >>]

NoPose == [score |-> Undefined, keypoints |-> <<>>]

IdleProbe ==
  [fn |-> "none", pose |-> NoPose, landmarks |-> AllNullLandmarks,
   backAngle |-> 0, neck |-> 0]

ClassifyProbe(l, a, n) ==
  [fn |-> "classifyPosture", pose |-> NoPose, landmarks |-> l,
   backAngle |-> a, neck |-> n]

ExtractProbe(k) ==
  [fn |-> "extractLandmarks", pose |-> [score |-> 70, keypoints |-> k],
   landmarks |-> AllNullLandmarks, backAngle |-> 0, neck |-> 0]

FrameProbe(q) ==
  [fn |-> "processFrame", pose |-> q, landmarks |-> AllNullLandmarks,
   backAngle |-> 0, neck |-> 0]

NoResult ==
  [done |-> FALSE, status |-> "initializing", landmarks |-> AllNullLandmarks,
   snapshot |-> InitialPostureData]

(* -------------------------------- state -------------------------------- *)

VARIABLES
  postureData,        \* useState: the published snapshot
  isModelLoading,     \* useState
  error,              \* useState: "" is null
  detectorRef,        \* useRef: Null or the detector
  animationFrameRef,  \* useRef: Null or a requestAnimationFrame handle
  videoRef,           \* useRef: Null or the bound video
  mounted,            \* FALSE once the effect cleanup has run
  loadPhase,          \* where initModel is: "tfReady", "creating", "ready", "failed"
  disposed,           \* the detector's dispose() has been called
  rafPending,         \* handles whose callback the browser will still run
  inflight,           \* awaited estimatePoses calls, in the order issued
  last,               \* what the last handler did
  stopped,            \* stopDetection has returned and startDetection was not called since
  stoppedMid,         \* ... and an estimatePoses call was outstanding at that stopDetection
  outOfOrder,         \* a snapshot was published after one of a later-issued call
  detection,          \* <<what estimatePoses gave the handler that just ran>>, or <<>>
  probeIn,            \* the arguments of a function applied on its own
  probeOut,           \* ... and what it returned
  webcam,             \* Index page: where its WebcamFeed is
  mpPoseRef,          \* MediaPipe hook, useRef: Null or the Pose
  mpCameraRef,        \* MediaPipe hook, useRef: Null or the last Camera started
  mpCreated,          \* MediaPipe hook: how many Cameras were constructed
  mpRunning,          \* MediaPipe hook: the Cameras started and not stopped
  mpSending,          \* MediaPipe hook: the Cameras whose onFrame awaits pose.send
  mpPostureData,      \* MediaPipe hook, useState
  mpLoading,          \* MediaPipe hook, useState isModelLoading
  mpError,            \* MediaPipe hook, useState error
  mpMounted,          \* MediaPipe hook: mounted and its cleanup has not run
  mpLast              \* MediaPipe hook: what the last handler did

vars == << postureData, isModelLoading, error, detectorRef, animationFrameRef,
           videoRef, mounted, loadPhase, disposed, rafPending, inflight,
           last, stopped, stoppedMid, outOfOrder, detection, probeIn, probeOut,
           webcam, mpPoseRef, mpCameraRef, mpCreated, mpRunning, mpSending,
           mpPostureData, mpLoading, mpError, mpMounted, mpLast >>

probeVars == << probeIn, probeOut >>

pageVars == << webcam >>

cameraVars == << mpPoseRef, mpCameraRef, mpCreated, mpRunning, mpSending,
                 mpPostureData, mpLoading, mpError, mpMounted, mpLast >>

\* what a handler of the TensorFlow.js hook does not touch
bystanders == << probeVars, pageVars, cameraVars >>

Videos == {1}

TheDetector == 1

LoadErrorMessage == "Failed to load pose detection model"

\* requestAnimationFrame handles are positive, never reused while they are
\* scheduled or held in animationFrameRef, and only compared for identity
FrameIds == 1..(MaxLoops + 1)

Did(op, issued, scheduled, published, threw) ==
  [op |-> op, issued |-> issued, scheduled |-> scheduled,
   published |-> published, threw |-> threw]

Loops == Cardinality(rafPending) + Len(inflight)

SessionInit ==
  /\ postureData = InitialPostureData
  /\ isModelLoading = TRUE
  /\ error = ""
  /\ detectorRef = Null
  /\ animationFrameRef = Null
  /\ videoRef = Null
  /\ mounted = TRUE
  /\ loadPhase = "tfReady"
  /\ disposed = FALSE
  /\ rafPending = {}
  /\ inflight = <<>>
  /\ last = Did("init", FALSE, FALSE, FALSE, FALSE)
  /\ stopped = FALSE
  /\ stoppedMid = FALSE
  /\ outOfOrder = FALSE
  /\ detection = <<>>

\* the Index page before it has rendered a WebcamFeed
PageIdle == webcam = "none"

\* the MediaPipe hook not in use
CameraIdle ==
  /\ mpPoseRef = Null
  /\ mpCameraRef = Null
  /\ mpCreated = 0
  /\ mpRunning = {}
  /\ mpSending = {}
  /\ mpPostureData = InitialPostureData
  /\ mpLoading = TRUE
  /\ mpError = ""
  /\ mpMounted = FALSE
  /\ mpLast = [op |-> "none", published |-> FALSE]

Init ==
  /\ SessionInit
  /\ probeIn = IdleProbe
  /\ probeOut = NoResult
  /\ PageIdle
  /\ CameraIdle

\* processFrame up to its await: TRUE when it calls estimatePoses
ProcessFrameIssues(detector, video) == detector # Null /\ video # Null

NewCall == [overtaken |-> FALSE]

(* --------------------------- model loading ----------------------------- *)

\* initModel: await tf.ready() resolves, createDetector is called
TfReady ==
  /\ loadPhase = "tfReady"
  /\ loadPhase' = "creating"
  /\ last' = Did("tfReady", FALSE, FALSE, FALSE, FALSE)
  /\ detection' = <<>>
  /\ UNCHANGED bystanders
  /\ UNCHANGED << postureData, isModelLoading, error, detectorRef,
                  animationFrameRef, videoRef, mounted, disposed, rafPending,
                  inflight, stopped, stoppedMid, outOfOrder >>

\* a load that starts sampling by itself when a video is already bound
LoadSucceedsAutoStart ==
  /\ loadPhase = "creating"
  /\ loadPhase' = "ready"
  /\ detectorRef' = TheDetector
  /\ isModelLoading' = FALSE
  /\ inflight' = IF videoRef # Null THEN Append(inflight, NewCall) ELSE inflight
  /\ last' = Did("loaded", videoRef # Null, FALSE, FALSE, FALSE)
  /\ detection' = <<>>
  /\ UNCHANGED bystanders
  /\ UNCHANGED << postureData, error, animationFrameRef, videoRef, mounted,
                  disposed, rafPending, stopped, stoppedMid, outOfOrder >>

\* initModel: createDetector resolves
LoadSucceeds ==
  /\ loadPhase = "creating"
  /\ loadPhase' = "ready"
  /\ detectorRef' = TheDetector
  /\ isModelLoading' = FALSE
  /\ last' = Did("loaded", FALSE, FALSE, FALSE, FALSE)
  /\ detection' = <<>>
  /\ UNCHANGED bystanders
  /\ UNCHANGED << postureData, error, animationFrameRef, videoRef, mounted,
                  disposed, rafPending, inflight, stopped, stoppedMid,
                  outOfOrder >>

\* a catch block that logs the load failure and sets no error
LoadFailsSilently ==
  /\ loadPhase \in {"tfReady", "creating"}
  /\ loadPhase' = "failed"
  /\ isModelLoading' = FALSE
  /\ last' = Did("loadFailed", FALSE, FALSE, FALSE, FALSE)
  /\ detection' = <<>>
  /\ UNCHANGED bystanders
  /\ UNCHANGED << postureData, error, detectorRef, animationFrameRef, videoRef,
                  mounted, disposed, rafPending, inflight, stopped,
                  stoppedMid, outOfOrder >>

\* a catch block that leaves isModelLoading set
LoadFailsKeepsLoading ==
  /\ loadPhase \in {"tfReady", "creating"}
  /\ loadPhase' = "failed"
  /\ error' = LoadErrorMessage
  /\ last' = Did("loadFailed", FALSE, FALSE, FALSE, FALSE)
  /\ detection' = <<>>
  /\ UNCHANGED bystanders
  /\ UNCHANGED << postureData, isModelLoading, detectorRef, animationFrameRef,
                  videoRef, mounted, disposed, rafPending, inflight, stopped,
                  stoppedMid, outOfOrder >>

\* initModel: tf.ready() or createDetector rejects, the catch block runs
LoadFails ==
  /\ loadPhase \in {"tfReady", "creating"}
  /\ loadPhase' = "failed"
  /\ error' = LoadErrorMessage
  /\ isModelLoading' = FALSE
  /\ last' = Did("loadFailed", FALSE, FALSE, FALSE, FALSE)
  /\ detection' = <<>>
  /\ UNCHANGED bystanders
  /\ UNCHANGED << postureData, detectorRef, animationFrameRef, videoRef,
                  mounted, disposed, rafPending, inflight, stopped,
                  stoppedMid, outOfOrder >>

(* ---------------------------- the sampling loop ------------------------ *)

\* the handle requestAnimationFrame returns
NextFrameId(pending, held) ==
  CHOOSE f \in FrameIds : /\ f \notin pending \cup {held}
                          /\ \A g \in FrameIds : g < f => g \in pending \cup {held}

\* a start that does not look at detectorRef
startDetectionUnguarded(video) ==
  LET issues == animationFrameRef = Null /\ video # Null
  IN  /\ mounted
      /\ issues => Loops < MaxLoops
      /\ videoRef' = video
      /\ inflight' = IF issues THEN Append(inflight, NewCall) ELSE inflight
      /\ last' = Did("start", issues, FALSE, FALSE, FALSE)
      /\ detection' = <<>>
      /\ stopped' = FALSE
      /\ stoppedMid' = FALSE
      /\ UNCHANGED << postureData, isModelLoading, error, detectorRef,
                      animationFrameRef, mounted, loadPhase, disposed,
                      rafPending, outOfOrder, bystanders >>

\* a start that loads the model again after a failed load
startDetectionRetriesLoad(video) ==
  LET runs == detectorRef # Null /\ animationFrameRef = Null
      issues == runs /\ ProcessFrameIssues(detectorRef, video)
  IN  /\ mounted
      /\ issues => Loops < MaxLoops
      /\ videoRef' = video
      /\ inflight' = IF issues THEN Append(inflight, NewCall) ELSE inflight
      /\ loadPhase' = IF loadPhase = "failed" THEN "tfReady" ELSE loadPhase
      /\ last' = Did("start", issues, FALSE, FALSE, FALSE)
      /\ detection' = <<>>
      /\ stopped' = FALSE
      /\ stoppedMid' = FALSE
      /\ UNCHANGED << postureData, isModelLoading, error, detectorRef,
                      animationFrameRef, mounted, disposed,
                      rafPending, outOfOrder, bystanders >>

startDetection(video) ==
  LET runs == detectorRef # Null /\ animationFrameRef = Null
      issues == runs /\ ProcessFrameIssues(detectorRef, video)
  IN  /\ mounted
      /\ issues => Loops < MaxLoops
      /\ videoRef' = video
      /\ inflight' = IF issues THEN Append(inflight, NewCall) ELSE inflight
      /\ last' = Did("start", issues, FALSE, FALSE, FALSE)
      /\ detection' = <<>>
      /\ UNCHANGED bystanders
      /\ stopped' = FALSE
      /\ stoppedMid' = FALSE
      /\ UNCHANGED << postureData, isModelLoading, error, detectorRef,
                      animationFrameRef, mounted, loadPhase, disposed,
                      rafPending, outOfOrder >>

\* a stop that cancels the frame and keeps the handle in animationFrameRef
stopDetectionKeepsHandle ==
  /\ mounted
  /\ rafPending' = IF animationFrameRef # Null
                   THEN rafPending \ {animationFrameRef}
                   ELSE rafPending
  /\ last' = Did("stop", FALSE, FALSE, FALSE, FALSE)
  /\ detection' = <<>>
  /\ stopped' = TRUE
  /\ stoppedMid' = (Len(inflight) > 0)
  /\ UNCHANGED << postureData, isModelLoading, error, detectorRef, videoRef,
                  animationFrameRef, mounted, loadPhase, disposed, inflight,
                  outOfOrder, bystanders >>

stopDetection ==
  /\ mounted
  /\ IF animationFrameRef # Null
     THEN /\ rafPending' = rafPending \ {animationFrameRef}
          /\ animationFrameRef' = Null
     ELSE UNCHANGED << rafPending, animationFrameRef >>
  /\ last' = Did("stop", FALSE, FALSE, FALSE, FALSE)
  /\ detection' = <<>>
  /\ UNCHANGED bystanders
  /\ stopped' = TRUE
  /\ stoppedMid' = (Len(inflight) > 0)
  /\ UNCHANGED << postureData, isModelLoading, error, detectorRef, videoRef,
                  mounted, loadPhase, disposed, inflight, outOfOrder >>

\* the browser runs a scheduled callback: processFrame up to its await
AnimationFrame(f) ==
  LET issues == ProcessFrameIssues(detectorRef, videoRef)
  IN  /\ f \in rafPending
      /\ rafPending' = rafPending \ {f}
      /\ inflight' = IF issues THEN Append(inflight, NewCall) ELSE inflight
      /\ last' = Did("frame", issues, FALSE, FALSE, FALSE)
      /\ detection' = <<>>
      /\ UNCHANGED bystanders
      /\ UNCHANGED << postureData, isModelLoading, error, detectorRef,
                      animationFrameRef, videoRef, mounted, loadPhase,
                      disposed, stopped, stoppedMid, outOfOrder >>

\* processFrame's try block after the await: TRUE when it calls setPostureData
Publishes(outcome) == ~outcome.threw /\ Len(outcome.poses) > 0

\* a catch block that resets the snapshot
AfterInferenceResetOnThrow(data, outcome) ==
  IF Publishes(outcome) THEN FrameSnapshot(outcome.poses[1])
  ELSE IF outcome.threw THEN InitialPostureData
  ELSE data

\* a publish that replaces the status and keeps the other fields
AfterInferencePartial(data, outcome) ==
  IF Publishes(outcome)
  THEN [data EXCEPT !.status = FrameSnapshot(outcome.poses[1]).status]
  ELSE data

\* postureData after processFrame's try/catch
AfterInference(data, outcome) ==
  IF Publishes(outcome) THEN FrameSnapshot(outcome.poses[1]) ELSE data

\* the next frame requested inside the try block
ReschedulesUnlessThrown(outcome) == ~outcome.threw

\* processFrame reaches its last statement after the try/catch
Reschedules(outcome) == TRUE

\* a catch block that reports the failure through setError
ErrorAfterFrameSurfaced(err, outcome) ==
  IF outcome.threw THEN "Error processing frame" ELSE err

\* error after processFrame's catch block, which only logs
ErrorAfterFrame(err, outcome) == err

\* the i-th awaited estimatePoses call settles and processFrame runs to its end
InferenceSettles(i, outcome) ==
  LET call == inflight[i]
      pub == Publishes(outcome)
      rest == [j \in 1..(Len(inflight) - 1) |->
                 IF j < i
                 THEN [inflight[j] EXCEPT !.overtaken = @ \/ pub]
                 ELSE inflight[j + 1]]
      id == NextFrameId(rafPending, animationFrameRef)
  IN  /\ i \in 1..Len(inflight)
      /\ inflight' = rest
      /\ postureData' = AfterInference(postureData, outcome)
      /\ outOfOrder' = (outOfOrder \/ (pub /\ call.overtaken))
      /\ IF Reschedules(outcome)
         THEN /\ rafPending' = rafPending \cup {id}
              /\ animationFrameRef' = id
         ELSE UNCHANGED << rafPending, animationFrameRef >>
      /\ error' = ErrorAfterFrame(error, outcome)
      /\ last' = Did("settled", FALSE, Reschedules(outcome), pub, outcome.threw)
      /\ detection' = <<outcome>>
      /\ UNCHANGED bystanders
      /\ UNCHANGED << isModelLoading, detectorRef, videoRef, mounted,
                      loadPhase, disposed, stopped, stoppedMid >>

(* ------------------------------- teardown ------------------------------ *)

\* the cleanup of the model init effect
Unmount ==
  /\ mounted
  /\ mounted' = FALSE
  /\ rafPending' = IF animationFrameRef # Null
                   THEN rafPending \ {animationFrameRef}
                   ELSE rafPending
  /\ disposed' = (disposed \/ detectorRef # Null)
  /\ last' = Did("unmount", FALSE, FALSE, FALSE, FALSE)
  /\ detection' = <<>>
  /\ UNCHANGED bystanders
  /\ UNCHANGED << postureData, isModelLoading, error, detectorRef,
                  animationFrameRef, videoRef, loadPhase, inflight, stopped,
                  stoppedMid, outOfOrder >>

Next ==
  \/ TfReady
  \/ LoadSucceeds
  \/ LoadFails
  \/ \E v \in Videos : startDetection(v)
  \/ stopDetection
  \/ \E f \in FrameIds : AnimationFrame(f)
  \/ \E i \in 1..MaxLoops, o \in InferenceOutcomes : InferenceSettles(i, o)
  \/ Unmount

Spec == Init /\ [][Next]_vars

\* the browser runs every scheduled animation-frame callback
LiveSpec == Spec /\ \A f \in FrameIds : WF_vars(AnimationFrame(f))

\* the load attempt terminates: tf.ready() and createDetector settle
LoadLiveSpec == Spec /\ WF_vars(TfReady \/ LoadSucceeds \/ LoadFails)

(* --------------- classifier, extractor and frame pipeline alone -------- *)

sessionVars ==
  << postureData, isModelLoading, error, detectorRef, animationFrameRef,
     videoRef, mounted, loadPhase, disposed, rafPending, inflight, last,
     stopped, stoppedMid, outOfOrder, detection >>

ProbeInit ==
  /\ SessionInit
  /\ \/ \E l \in ProbeLandmarkSets, a \in ProbeAngles, n \in ProbeNecks :
          probeIn = ClassifyProbe(l, a, n)
     \/ \E c \in [1..5 -> ProbeScores] :
          probeIn = ExtractProbe(KeypointsScored(c))
     \* coordinates include 0
     \/ \E nx \in {0, 40, 90}, lsx \in {0, 20}, rsx \in {0, 40, 60}, sy \in {0, 40},
           lhx \in {0, 30}, rhx \in {0, 50}, hy \in {80, 120}, m \in SUBSET (1..5) :
          probeIn = FrameProbe(ProbeFramePose(nx, lsx, rsx, sy, lhx, rhx, hy, m))
  /\ probeOut = NoResult
  /\ PageIdle
  /\ CameraIdle

ApplyClassifyPosture ==
  /\ probeIn.fn = "classifyPosture"
  /\ ~probeOut.done
  /\ probeOut' = [NoResult EXCEPT
                    !.done = TRUE,
                    !.status = classifyPosture(probeIn.landmarks, probeIn.backAngle,
                                               probeIn.neck)]
  /\ UNCHANGED << sessionVars, probeIn, pageVars, cameraVars >>

ApplyExtractLandmarks ==
  /\ probeIn.fn = "extractLandmarks"
  /\ ~probeOut.done
  /\ probeOut' = [NoResult EXCEPT
                    !.done = TRUE,
                    !.landmarks = extractLandmarks(probeIn.pose.keypoints)]
  /\ UNCHANGED << sessionVars, probeIn, pageVars, cameraVars >>

\* processFrame's computation on poses[0], up to the argument of setPostureData
ApplyProcessFrame ==
  /\ probeIn.fn = "processFrame"
  /\ ~probeOut.done
  /\ probeOut' = LET snap == FrameSnapshot(probeIn.pose)
                 IN  [done |-> TRUE, status |-> snap.status,
                      landmarks |-> snap.landmarks, snapshot |-> snap]
  /\ UNCHANGED << sessionVars, probeIn, pageVars, cameraVars >>

ProbeNext ==
  \/ ApplyClassifyPosture
  \/ ApplyExtractLandmarks
  \/ ApplyProcessFrame

ProbeSpec == ProbeInit /\ [][ProbeNext]_vars

(* ------------------------------ the Index page ------------------------- *)

\* an Index without its early returns: the WebcamFeed is rendered at once
MountWebcamFeedAlways ==
  /\ mounted
  /\ webcam = "none"
  /\ webcam' = "requesting"
  /\ UNCHANGED << sessionVars, probeVars, cameraVars >>

\* Index renders past its two early returns: the WebcamFeed mounts and its
\* effect calls getUserMedia
MountWebcamFeed ==
  /\ mounted
  /\ webcam = "none"
  /\ ~isModelLoading
  /\ error = ""
  /\ webcam' = "requesting"
  /\ UNCHANGED << sessionVars, probeVars, cameraVars >>

\* setupCamera: getUserMedia resolves; the stream and the onloadedmetadata
\* handler are set when the video element is still there
CameraGranted ==
  /\ webcam = "requesting"
  /\ webcam' = IF mounted THEN "streaming" ELSE "ended"
  /\ UNCHANGED << sessionVars, probeVars, cameraVars >>

\* setupCamera: getUserMedia rejects
CameraDenied ==
  /\ webcam = "requesting"
  /\ webcam' = "denied"
  /\ UNCHANGED << sessionVars, probeVars, cameraVars >>

\* the video's onloadedmetadata handler: onVideoReady, that is
\* handleVideoReady, calls startDetection
VideoReady(video) ==
  /\ webcam = "streaming"
  /\ startDetection(video)

\* Index takes startDetection only: it never calls stopDetection
PageNext ==
  \/ TfReady
  \/ LoadSucceeds
  \/ LoadFails
  \/ MountWebcamFeed
  \/ CameraGranted
  \/ CameraDenied
  \/ \E v \in Videos : VideoReady(v)
  \/ \E f \in FrameIds : AnimationFrame(f)
  \/ \E i \in 1..MaxLoops, o \in InferenceOutcomes : InferenceSettles(i, o)
  \/ Unmount

PageSpec == Init /\ [][PageNext]_vars

(* ------------------ the MediaPipe hook (push-driven) ------------------- *)

\* most Cameras startDetection constructs
MaxCameras == 3

\* NECK_FORWARD_THRESHOLD of the MediaPipe hook, 0.08, in hundredths of the
\* normalized frame width
MP_NECK_FORWARD_THRESHOLD == 8

NOSE == 0

LEFT_SHOULDER == 11

RIGHT_SHOULDER == 12

LEFT_HIP == 23

RIGHT_HIP == 24

MpIndices == {NOSE, LEFT_SHOULDER, RIGHT_SHOULDER, LEFT_HIP, RIGHT_HIP}

ThePose == 1

CameraIds == 1..MaxCameras

mpClassifyPosture(landmarks, backAngle, neckForwardDistance) ==
  LET hasRequiredLandmarks ==
        /\ landmarks.leftShoulder # NullPoint
        /\ landmarks.rightShoulder # NullPoint
        /\ landmarks.leftHip # NullPoint
        /\ landmarks.rightHip # NullPoint
      isBackAngleBad == Abs(backAngle) > BACK_ANGLE_THRESHOLD
      isHeadForward == neckForwardDistance > MP_NECK_FORWARD_THRESHOLD
  IN  IF ~hasRequiredLandmarks THEN "initializing"
      ELSE IF isBackAngleBad \/ isHeadForward THEN "bad"
      ELSE "good"

\* postureData after onResults; results.poseLandmarks is <<>> when undefined
\* and <<lm>> otherwise, lm[i] being <<>> or <<point>>; coordinates are in
\* hundredths of the frame, so a distance is already the code's distance * 100
mpOnResults(data, results) ==
  IF results.poseLandmarks = <<>> THEN data
  ELSE
    LET lm == results.poseLandmarks[1]
        landmarks == [nose          |-> lm[NOSE],
                      leftShoulder  |-> lm[LEFT_SHOULDER],
                      rightShoulder |-> lm[RIGHT_SHOULDER],
                      leftHip       |-> lm[LEFT_HIP],
                      rightHip      |-> lm[RIGHT_HIP]]
        hasShoulders == landmarks.leftShoulder # NullPoint
                          /\ landmarks.rightShoulder # NullPoint
        hasHips == landmarks.leftHip # NullPoint /\ landmarks.rightHip # NullPoint
        shoulderMidX == IF hasShoulders
                        THEN (landmarks.leftShoulder[1].x + landmarks.rightShoulder[1].x) \div 2
                        ELSE 0
        shoulderMidY == IF hasShoulders
                        THEN (landmarks.leftShoulder[1].y + landmarks.rightShoulder[1].y) \div 2
                        ELSE 0
        hipMidX == IF hasHips
                   THEN (landmarks.leftHip[1].x + landmarks.rightHip[1].x) \div 2
                   ELSE 0
        hipMidY == IF hasHips
                   THEN (landmarks.leftHip[1].y + landmarks.rightHip[1].y) \div 2
                   ELSE 0
        backAngle == IF shoulderMidY # 0 /\ hipMidY # 0
                     THEN calculateAngleFromVertical([x |-> shoulderMidX, y |-> shoulderMidY],
                                                     [x |-> hipMidX, y |-> hipMidY])
                     ELSE 0
        neckForwardDistance == IF landmarks.nose # NullPoint /\ shoulderMidX # 0
                               THEN Abs(landmarks.nose[1].x - shoulderMidX)
                               ELSE 0
    IN  [status     |-> mpClassifyPosture(landmarks, backAngle, neckForwardDistance),
         landmarks  |-> landmarks,
         neckAngle  |-> neckForwardDistance,
         backAngle  |-> backAngle,
         confidence |-> 90]

MpLandmarks(n, ls, rs, lh, rh) ==
  [i \in MpIndices |->
     CASE i = NOSE -> n
       [] i = LEFT_SHOULDER -> ls
       [] i = RIGHT_SHOULDER -> rs
       [] i = LEFT_HIP -> lh
       [] i = RIGHT_HIP -> rh]

\* what pose.send hands to onResults: no landmarks, an upright pose, a
\* forward head, a pose without its right hip
MpResults ==
  { [poseLandmarks |-> <<>>],
    [poseLandmarks |-> << MpLandmarks(Point(40, 30), Point(30, 40), Point(50, 40),
                                      Point(34, 80), Point(46, 80)) >>],
    [poseLandmarks |-> << MpLandmarks(Point(52, 30), Point(30, 40), Point(50, 40),
                                      Point(34, 80), Point(46, 80)) >>],
    [poseLandmarks |-> << MpLandmarks(Point(40, 30), Point(30, 40), Point(50, 40),
                                      Point(34, 80), NullPoint) >> ] }

MpDid(op, published) == [op |-> op, published |-> published]

\* the state after construction: the effect has run initPose, which has no
\* await; new Pose(...) succeeded or threw
CameraInit ==
  /\ SessionInit
  /\ probeIn = IdleProbe
  /\ probeOut = NoResult
  /\ PageIdle
  /\ mpPoseRef \in {Null, ThePose}
  /\ mpCameraRef = Null
  /\ mpCreated = 0
  /\ mpRunning = {}
  /\ mpSending = {}
  /\ mpPostureData = InitialPostureData
  /\ mpLoading = FALSE
  /\ mpError = (IF mpPoseRef = Null THEN LoadErrorMessage ELSE "")
  /\ mpMounted = TRUE
  /\ mpLast = MpDid("init", FALSE)

\* startDetection of the MediaPipe hook: a new Camera is constructed,
\* started and stored
mpStartDetection(video) ==
  /\ mpMounted
  /\ IF mpPoseRef = Null
     THEN UNCHANGED << mpCreated, mpRunning, mpCameraRef >>
     ELSE /\ mpCreated < MaxCameras
          /\ mpCreated' = mpCreated + 1
          /\ mpRunning' = mpRunning \cup {mpCreated + 1}
          /\ mpCameraRef' = mpCreated + 1
  /\ mpLast' = MpDid("start", FALSE)
  /\ UNCHANGED << mpPoseRef, mpSending, mpPostureData, mpLoading, mpError,
                  mpMounted >>
  /\ UNCHANGED << sessionVars, probeVars, pageVars >>

\* stopDetection of the MediaPipe hook
mpStopDetection ==
  /\ mpMounted
  /\ IF mpCameraRef # Null
     THEN /\ mpRunning' = mpRunning \ {mpCameraRef}
          /\ mpCameraRef' = Null
     ELSE UNCHANGED << mpRunning, mpCameraRef >>
  /\ mpLast' = MpDid("stop", FALSE)
  /\ UNCHANGED << mpPoseRef, mpCreated, mpSending, mpPostureData, mpLoading,
                  mpError, mpMounted >>
  /\ UNCHANGED << sessionVars, probeVars, pageVars >>

\* a running Camera delivers a frame: onFrame calls pose.send and awaits it
CameraFrame(c) ==
  /\ c \in mpRunning
  /\ c \notin mpSending
  /\ mpSending' = IF mpPoseRef # Null THEN mpSending \cup {c} ELSE mpSending
  /\ mpLast' = MpDid("frame", FALSE)
  /\ UNCHANGED << mpPoseRef, mpCameraRef, mpCreated, mpRunning, mpPostureData,
                  mpLoading, mpError, mpMounted >>
  /\ UNCHANGED << sessionVars, probeVars, pageVars >>

\* pose.send calls onResults and resolves
SendSettles(c, results) ==
  /\ c \in mpSending
  /\ mpSending' = mpSending \ {c}
  /\ mpPostureData' = mpOnResults(mpPostureData, results)
  /\ mpLast' = MpDid("results", results.poseLandmarks # <<>>)
  /\ UNCHANGED << mpPoseRef, mpCameraRef, mpCreated, mpRunning, mpLoading,
                  mpError, mpMounted >>
  /\ UNCHANGED << sessionVars, probeVars, pageVars >>

\* the cleanup of the initPose effect
mpUnmount ==
  /\ mpMounted
  /\ mpMounted' = FALSE
  /\ mpRunning' = IF mpCameraRef # Null THEN mpRunning \ {mpCameraRef}
                  ELSE mpRunning
  /\ mpLast' = MpDid("unmount", FALSE)
  /\ UNCHANGED << mpPoseRef, mpCameraRef, mpCreated, mpSending, mpPostureData,
                  mpLoading, mpError >>
  /\ UNCHANGED << sessionVars, probeVars, pageVars >>

CameraNext ==
  \/ \E v \in Videos : mpStartDetection(v)
  \/ mpStopDetection
  \/ \E c \in CameraIds : CameraFrame(c)
  \/ \E c \in CameraIds, r \in MpResults : SendSettles(c, r)
  \/ mpUnmount

CameraSpec == CameraInit /\ [][CameraNext]_vars

(* ------------------------------ properties ----------------------------- *)

\* C1: once stopDetection has returned with an estimatePoses call
\* outstanding, and until startDetection is called again, no snapshot is
\* published.
C1_NoPublishAfterStop == ~(stoppedMid /\ last.published)

\* C2: once stopDetection has returned, and until startDetection is called
\* again, no handler schedules an animation frame or issues an estimatePoses
\* call.
C2_NoTickAfterStop == ~(stopped /\ (last.scheduled \/ last.issued))

\* C3: at most one estimatePoses call is outstanding.
C3_AtMostOneInflight == Len(inflight) <= 1

\* C4: no snapshot is published after the snapshot of a call that was
\* issued later.
C4_PublishedInIssueOrder == ~outOfOrder

\* C5: no estimatePoses call is issued once the detector's dispose() has
\* been called.
C5_NoUseAfterDispose == ~(disposed /\ last.issued)

\* C6: once the session is torn down and the load attempt has produced a
\* detector, that detector has been disposed.
C6_EngineReleased == (~mounted /\ loadPhase = "ready") => disposed

\* C7: a step in which an estimatePoses call throws leaves postureData as
\* it was.
C7_ThrowKeepsSnapshot ==
  [][(last'.op = "settled" /\ last'.threw) => postureData' = postureData]_vars

\* C7 witness: a call has just thrown while an earlier snapshot is published
C7_Witness ==
  /\ last.op = "settled"
  /\ last.threw
  /\ postureData.status = "bad"

\* C8: every settled estimatePoses call, thrown or not, requests the next
\* animation frame; every requested frame is eventually run or cancelled;
\* and a frame that is not cancelled by stopDetection or the teardown issues
\* a new estimatePoses call.
C8_LoopContinues ==
  /\ [][Len(inflight') < Len(inflight)
          => (last'.scheduled /\ animationFrameRef' \in rafPending')]_vars
  /\ [][\A f \in FrameIds :
          (f \in rafPending /\ f \notin rafPending')
            => (last'.issued \/ last'.op \in {"stop", "unmount"})]_vars
  /\ \A f \in FrameIds : (f \in rafPending) ~> (f \notin rafPending)

\* C8 witness: a call has just thrown in a running session and the next
\* frame is scheduled
C8_Witness ==
  /\ last.op = "settled"
  /\ last.threw
  /\ mounted
  /\ ~stopped
  /\ animationFrameRef \in rafPending

\* C9: after a failed load, error is set, no estimatePoses call is issued
\* or outstanding, no animation frame is scheduled and postureData keeps its
\* initial value.
C9_LoadFailureIsFatal ==
  loadPhase = "failed" =>
    /\ error # ""
    /\ inflight = <<>>
    /\ rafPending = {}
    /\ ~last.issued
    /\ ~last.published
    /\ postureData = InitialPostureData

\* C9 witness: startDetection has been called with a video after the load
\* failed
C9_Witness ==
  /\ loadPhase = "failed"
  /\ last.op = "start"
  /\ videoRef # Null

\* C10: error changes only in the step in which the load fails, from null,
\* while the model is loading.
C10_ErrorOnlyFromLoading ==
  [][error' # error =>
       /\ error = ""
       /\ isModelLoading
       /\ loadPhase \in {"tfReady", "creating"}
       /\ loadPhase' = "failed"]_vars

\* C10 witness: the error of a failed load is still set after stopDetection
C10_Witness ==
  /\ error = LoadErrorMessage
  /\ last.op = "stop"

\* C11: a snapshot processFrame builds with status good or bad has both
\* shoulders and both hips non-null, and classifyPosture returns initializing
\* for every landmark set with one of the four null, whatever the back angle
\* and the neck offset are.
C11_StatusNeedsRequiredLandmarks ==
  /\ (probeOut.done /\ probeIn.fn = "processFrame"
        /\ probeOut.snapshot.status \in {"good", "bad"})
       => RequiredPresent(probeOut.snapshot.landmarks)
  /\ (probeOut.done /\ probeIn.fn = "classifyPosture"
        /\ ~RequiredPresent(probeIn.landmarks))
       => probeOut.status = "initializing"

\* C11 witness: classifyPosture has run on a set with only a hip missing, a
\* back angle and a neck offset beyond their thresholds
C11_Witness ==
  /\ probeOut.done
  /\ probeIn.fn = "classifyPosture"
  /\ probeIn.landmarks.leftShoulder # NullPoint
  /\ probeIn.landmarks.rightShoulder # NullPoint
  /\ probeIn.landmarks.leftHip # NullPoint
  /\ probeIn.landmarks.rightHip = NullPoint
  /\ probeIn.backAngle = 20
  /\ probeIn.neck = 31
  /\ probeOut.status = "initializing"

\* C12: with both shoulders and both hips present, classifyPosture returns
\* bad exactly when |backAngle| > 15 or neckForwardDistance >
\* NECK_FORWARD_THRESHOLD, and good otherwise.
C12_BadIffEitherTrigger ==
  (probeOut.done /\ probeIn.fn = "classifyPosture"
     /\ RequiredPresent(probeIn.landmarks))
    => probeOut.status =
         (IF \/ probeIn.backAngle > 15
             \/ probeIn.backAngle < -15
             \/ probeIn.neck > NECK_FORWARD_THRESHOLD
          THEN "bad" ELSE "good")

\* C12 witness: the back angle alone makes the posture bad
C12_Witness ==
  /\ probeOut.done
  /\ probeIn.fn = "classifyPosture"
  /\ RequiredPresent(probeIn.landmarks)
  /\ probeIn.backAngle = 16
  /\ probeIn.neck = 0
  /\ probeOut.status = "bad"

\* C13: with a complete landmark set and a neck offset not above its
\* threshold, a back angle of 15 or -15 is good, a back angle of magnitude
\* above 15 is bad, and the result for -a is the result for a.
C13_StrictAndSymmetric ==
  (probeOut.done /\ probeIn.fn = "classifyPosture"
     /\ RequiredPresent(probeIn.landmarks)
     /\ probeIn.neck <= NECK_FORWARD_THRESHOLD)
    => /\ (probeIn.backAngle = 15 \/ probeIn.backAngle = -15)
            => probeOut.status = "good"
       /\ (probeIn.backAngle > 15 \/ probeIn.backAngle < -15)
            => probeOut.status = "bad"
       /\ probeOut.status =
            classifyPosture(probeIn.landmarks, -probeIn.backAngle, probeIn.neck)

\* C13 witness: a back angle of -16 with the neck offset at its threshold
C13_Witness ==
  /\ probeOut.done
  /\ probeIn.fn = "classifyPosture"
  /\ RequiredPresent(probeIn.landmarks)
  /\ probeIn.backAngle = -16
  /\ probeIn.neck = NECK_FORWARD_THRESHOLD
  /\ probeOut.status = "bad"

\* C14: for a tracked keypoint that is present and has a score,
\* extractLandmarks gives a non-null point exactly when the score is above
\* 0.3, with the keypoint's x and y; an absent keypoint gives null.
C14_ScoreGate ==
  (probeOut.done /\ probeIn.fn = "extractLandmarks")
    => \A i \in 1..5 :
         LET kp == KeypointNamed(probeIn.pose.keypoints, TrackedNames[i])
             lm == LandmarkNamed(probeOut.landmarks, TrackedNames[i])
         IN  /\ kp = <<>> => lm = NullPoint
             /\ (kp # <<>> /\ kp[1].score # Undefined)
                  => /\ (lm # NullPoint) <=> (kp[1].score > 30)
                     /\ kp[1].score > 30 => lm = Point(kp[1].x, kp[1].y)

\* C14 witness: scores 0.29, 0.30 and 0.31 on the nose and the shoulders
C14_Witness ==
  /\ probeOut.done
  /\ probeIn.fn = "extractLandmarks"
  /\ KeypointNamed(probeIn.pose.keypoints, "nose") # <<>>
  /\ KeypointNamed(probeIn.pose.keypoints, "nose")[1].score = 29
  /\ KeypointNamed(probeIn.pose.keypoints, "left_shoulder") # <<>>
  /\ KeypointNamed(probeIn.pose.keypoints, "left_shoulder")[1].score = 30
  /\ KeypointNamed(probeIn.pose.keypoints, "right_shoulder") # <<>>
  /\ KeypointNamed(probeIn.pose.keypoints, "right_shoulder")[1].score = 31
  /\ probeOut.landmarks.nose = NullPoint
  /\ probeOut.landmarks.leftShoulder = NullPoint
  /\ probeOut.landmarks.rightShoulder = Point(50, 40)

\* C15: a tracked keypoint that is present without a score is accepted with
\* its x and y.
C15_NoScoreAccepted ==
  (probeOut.done /\ probeIn.fn = "extractLandmarks")
    => \A i \in 1..5 :
         LET kp == KeypointNamed(probeIn.pose.keypoints, TrackedNames[i])
             lm == LandmarkNamed(probeOut.landmarks, TrackedNames[i])
         IN  (kp # <<>> /\ kp[1].score = Undefined)
               => lm = Point(kp[1].x, kp[1].y)

\* C16: when estimatePoses resolves with no pose, the snapshot published
\* after that frame has status initializing and all five landmarks null.
C16_NoPoseGivesInitializing ==
  (detection # <<>> /\ ~detection[1].threw /\ detection[1].poses = <<>>)
    => /\ postureData.status = "initializing"
       /\ postureData.landmarks = AllNullLandmarks

\* C17: after a frame whose estimatePoses call resolved, the published
\* status is the status of that frame's detection alone: initializing when
\* its required landmarks are incomplete (no pose, or a shoulder or hip
\* missing), the classification of its own landmarks otherwise.
C17_StatusFromDetectionOnly ==
  (detection # <<>> /\ ~detection[1].threw)
    => LET d == detection[1]
           lm == IF d.poses = <<>> THEN AllNullLandmarks
                 ELSE extractLandmarks(d.poses[1].keypoints)
       IN  postureData.status =
             (IF ~RequiredPresent(lm) THEN "initializing"
              ELSE FrameSnapshot(d.poses[1]).status)

\* C18: the backAngle processFrame publishes is atan2(dx, dy) in degrees of
\* the hip-midpoint-to-shoulder-midpoint vector whenever both shoulders and
\* both hips are present, for all coordinates, and 0 when one is missing.
C18_BackAngleFromMidpoints ==
  (probeOut.done /\ probeIn.fn = "processFrame")
    => LET lm == probeOut.snapshot.landmarks
       IN  IF RequiredPresent(lm)
           THEN LET shoulderMidX == (lm.leftShoulder[1].x + lm.rightShoulder[1].x) \div 2
                    shoulderMidY == (lm.leftShoulder[1].y + lm.rightShoulder[1].y) \div 2
                    hipMidX == (lm.leftHip[1].x + lm.rightHip[1].x) \div 2
                    hipMidY == (lm.leftHip[1].y + lm.rightHip[1].y) \div 2
                IN  probeOut.snapshot.backAngle =
                      Atan2Deg(shoulderMidX - hipMidX, hipMidY - shoulderMidY)
           ELSE probeOut.snapshot.backAngle = 0

\* C19: the neck offset processFrame classifies with is |nose.x -
\* shoulderMid.x| whenever the nose and both shoulders are present and 0
\* when one of them is null; a complete shoulder/hip set with a null nose
\* is classified from the back angle alone and is never initializing.
C19_NeckOffsetFromNose ==
  (probeOut.done /\ probeIn.fn = "processFrame")
    => LET lm == probeOut.snapshot.landmarks
           hasAll == /\ lm.nose # NullPoint
                     /\ lm.leftShoulder # NullPoint
                     /\ lm.rightShoulder # NullPoint
       IN  /\ probeOut.snapshot.neckAngle =
                (IF hasAll
                 THEN Abs(lm.nose[1].x
                            - (lm.leftShoulder[1].x + lm.rightShoulder[1].x) \div 2)
                 ELSE 0)
           /\ (RequiredPresent(lm) /\ lm.nose = NullPoint)
                => probeOut.snapshot.status =
                     (IF Abs(probeOut.snapshot.backAngle) > 15 THEN "bad" ELSE "good")

\* C20: until the model has loaded and startDetection has been called with
\* a video, no estimatePoses call is issued or outstanding, no animation
\* frame is scheduled and postureData keeps its initial value.
C20_NoSamplingBeforeRunning ==
  ~(loadPhase = "ready" /\ videoRef # Null)
    => /\ inflight = <<>>
       /\ rafPending = {}
       /\ ~last.issued
       /\ ~last.published
       /\ postureData = InitialPostureData

\* C20 witness: startDetection has been called while the model was loading
C20_Witness ==
  /\ loadPhase \in {"tfReady", "creating"}
  /\ last.op = "start"
  /\ videoRef # Null
  /\ inflight = <<>>

C22_LoadAttemptedOnce ==
  [][loadPhase' # loadPhase =>
       /\ last'.op \in {"tfReady", "loaded", "loadFailed"}
       /\ loadPhase \in {"tfReady", "creating"}
       /\ loadPhase' # "tfReady"]_vars

\* C22 witness: startDetection and stopDetection were called after the load
\* failed
C22_Witness ==
  /\ loadPhase = "failed"
  /\ last.op = "stop"
  /\ videoRef # Null

\* C23: isModelLoading is true exactly while the load attempt is running and
\* stays false afterwards; a load that terminates leaves Loading, with the
\* detector set and error null on success, with the detector unset and error
\* non-null on failure.
C23_LoadingEnds ==
  /\ [](isModelLoading <=> loadPhase \in {"tfReady", "creating"})
  /\ [](loadPhase = "ready" => (detectorRef # Null /\ error = ""))
  /\ [](loadPhase = "failed" => (detectorRef = Null /\ error # ""))
  /\ [][~isModelLoading => ~isModelLoading']_vars
  /\ <>(~isModelLoading)

\* C23 witness: the load has just failed
C23_Witness ==
  /\ last.op = "loadFailed"
  /\ ~isModelLoading
  /\ error # ""
  /\ detectorRef = Null

\* C24: the published snapshot's status is classifyPosture of its own
\* landmarks, backAngle and neckAngle, and the snapshot is the initial one or
\* the snapshot of one single frame.
C24_SnapshotSelfConsistent ==
  /\ postureData.status =
       classifyPosture(postureData.landmarks, postureData.backAngle,
                       postureData.neckAngle)
  /\ \/ postureData = InitialPostureData
     \/ \E q \in SamplePoses : postureData = FrameSnapshot(q)

\* C24 witness: the snapshot of the upright pose has just been published
C24_Witness ==
  /\ last.published
  /\ postureData.status = "good"
  /\ postureData.confidence = 90

\* C25: a startDetection call made while the model is loading issues no
\* estimatePoses call, the step in which the load succeeds starts nothing,
\* and the first sampling loop is started by a startDetection call made
\* after the load has succeeded.
C25_NoAutoStartAfterLoad ==
  /\ [][(last'.op = "start" /\ loadPhase # "ready")
          => (~last'.issued /\ inflight' = inflight)]_vars
  /\ [][last'.op = "loaded"
          => (inflight' = <<>> /\ rafPending' = {} /\ ~last'.issued)]_vars
  /\ [][(Loops = 0 /\ Loops' > 0)
          => (last'.op = "start" /\ loadPhase = "ready")]_vars

\* C25 witness: the load has just succeeded with a video already bound by
\* an earlier startDetection call, and nothing is sampling
C25_Witness ==
  /\ last.op = "loaded"
  /\ videoRef # Null
  /\ inflight = <<>>
  /\ rafPending = {}

\* C26: in the Index page the WebcamFeed is mounted only when isModelLoading
\* is false and error is null, and every startDetection call is made after
\* the model has loaded.
C26_PageStartsAfterLoad ==
  /\ [](webcam \in {"requesting", "streaming"}
          => (~isModelLoading /\ error = "" /\ loadPhase = "ready"))
  /\ [][last'.op = "start"
          => (loadPhase = "ready" /\ ~isModelLoading /\ error = "")]_vars

\* C26 witness: the page's WebcamFeed has just called startDetection and an
\* estimatePoses call was issued
C26_Witness ==
  /\ webcam = "streaming"
  /\ last.op = "start"
  /\ last.issued

\* C27: in the MediaPipe hook, when stopDetection has just returned, no
\* Camera that startDetection started is still running.
C27_StopStopsEveryCamera == mpLast.op = "stop" => mpRunning = {}

====
